---- MODULE Spec2Model ----
(***************************************************************************)
(* A model of the jdex server: the Database facade with its transaction    *)
(* queue (Database.ts), the file-system driver with its node index and     *)
(* path cache (FsDriver.ts) and the CRUD surface of a transaction          *)
(* (FsTransaction.ts).                                                     *)
(***************************************************************************)
EXTENDS Integers, Sequences, FiniteSets, TLC

\* Number of transaction() calls explored.
MaxRunners == 3

VARIABLES
  dbOpened,   \* Database._opened
  queue,      \* Database._transactionQueue: runners in arrival order
  running,    \* Database._transactionsRunning
  cur,        \* the runner whose run() the drainer awaits, 0 when there is none
  cbState,    \* per runner: "new", "queued", "inProgress" (suspended), "done"
  handle,     \* per runner: the promise `completed`: "pending", "resolved", "rejected"
  runErr,     \* per runner: result.err of run(): "none", "truthy", "falsy"
  kindOf,     \* per runner: how its callback behaved when it was started
  started,    \* history: runners in the order their callbacks were started
  nTxn        \* number of transaction() calls made so far

VARIABLES
  disk,       \* the directory tree under the database root: entries [path, kind, text]
  idsOn,      \* whether FsDriver._idsPath is set (id persistence configured)
  idsFile,    \* the id-mapping file: [present, map], map a set of [path, id]
  heap,       \* the live Node objects by id: [name, pId, hasChildren, children, content]
  nodes,      \* FsDriver._nodes: the keys of the id map, in insertion order
  rootNodes,  \* FsDriver._rootNodes, in set order
  paths,      \* FsDriver._paths: cached logical path per Node, <<>> when absent
  drvOpened,  \* FsDriver._opened
  nOps,       \* number of operations performed so far
  last,       \* the last operation performed and what it returned
  pending     \* the operation of a callback that is suspended on its file-system call

queueVars == <<dbOpened, queue, running, cur, cbState, handle, runErr, kindOf, started, nTxn>>

treeVars ==
  <<disk, idsOn, idsFile, heap, nodes, rootNodes, paths, drvOpened, nOps, last, pending>>

vars == <<queueVars, treeVars>>

(***************************************************************************)
(* Names, strings, ids.                                                    *)
(*                                                                         *)
(* A string is a sequence of atoms: "/" is the separator atom, any other  *)
(* atom stands for a run of characters without a separator.  A name is a   *)
(* string of one atom, so joining and splitting a path are real            *)
(* operations.                                                             *)
(***************************************************************************)

\* Number of id suffixes the random generator can produce per type prefix.
MaxIds == 2

\* Number of Node objects that may be alive at once.
MaxNodes == 4

\* Number of operations (open, close, add, remove, rename, move, path).
MaxOps == 4

\* Number of operations in the behaviours of moves and removes.
MaxDeepOps == 5

\* The entry names used as inputs.
Names == {<<"a">>, <<"b.json">>}

\* The names the glob of open() accepts for a file ("*.json").
JsonNames == {<<"b.json">>}

Sep == "/"

\* Rank of an atom in the order of JavaScript's string comparison: "/" is
\* U+002F, before every letter.
AtomRank(x) == CASE x = Sep -> 0 [] x = "a" -> 1 [] x = "b.json" -> 2

\* a < b for strings, as `p2 > p1` compares them.
RECURSIVE StrLess(_, _)
StrLess(s, t) ==
  IF t = <<>> THEN FALSE
  ELSE IF s = <<>> THEN TRUE
  ELSE IF AtomRank(Head(s)) # AtomRank(Head(t)) THEN AtomRank(Head(s)) < AtomRank(Head(t))
  ELSE StrLess(Tail(s), Tail(t))

\* parts.join("/")
RECURSIVE JoinPath(_)
JoinPath(parts) ==
  IF parts = <<>> THEN <<>>
  ELSE IF Len(parts) = 1 THEN parts[1]
  ELSE parts[1] \o <<Sep>> \o JoinPath(Tail(parts))

\* path.split("/"): the segments between separators (k + 1 segments for k
\* separators, empty segments kept).
RECURSIVE SplitPath(_)
SplitPath(s) ==
  IF \A i \in DOMAIN s : s[i] # Sep THEN <<s>>
  ELSE LET k == CHOOSE i \in DOMAIN s : s[i] = Sep /\ \A j \in 1..(i - 1) : s[j] # Sep
       IN <<SubSeq(s, 1, k - 1)>> \o SplitPath(SubSeq(s, k + 1, Len(s)))

\* The segments of a normalised file-system path below the root, as
\* Path.join leaves them: the non-empty segments, in order.
FsSegments(s) == SelectSeq(SplitPath(s), LAMBDA seg : seg # <<>>)

\* "No id": an unset pId, an absent argument, a lookup that found nothing.
NoId == <<>>

\* The ids createShortId can produce behind a type prefix.
IdPool(prefix) == {<<prefix, n>> : n \in 1..MaxIds}

AllIds == IdPool("d") \cup IdPool("f")

\* node.id.startsWith("d")
isDirectoryNode(id) == id[1] = "d"

\* node.id.startsWith("f")
isFileNode(id) == id[1] = "f"

Range(s) == {s[i] : i \in DOMAIN s}

\* Set.prototype.add on an insertion-ordered set.
SetAdd(s, x) == IF x \in Range(s) THEN s ELSE Append(s, x)

\* Set.prototype.delete / Map.prototype.delete on an insertion-ordered set.
SetDelete(s, x) == SelectSeq(s, LAMBDA y : y # x)

(***************************************************************************)
(* The file system below the database root.  A disk is a set of entries    *)
(* [path |-> segments, kind |-> "dir" | "file", text |-> what the file     *)
(* holds]; the root is <<>>.                                               *)
(***************************************************************************)

\* The values a client passes as `data`: a JSON object, and undefined.
DataX1 == <<"object", "x", 1>>

Undefined == <<"undefined">>

DataInputs == {DataX1, Undefined}

\* What a directory entry holds, and what JSON.stringify returns for
\* undefined (no text at all).
NoText == ""

\* JSON.stringify(data, undefined, 2)
JsonStringify(v) == IF v = DataX1 THEN "{\n  \"x\": 1\n}" ELSE NoText

\* JSON.parse(text)
JsonParse(t) == IF t = "{\n  \"x\": 1\n}" THEN DataX1 ELSE Undefined

\* A file text that is not JSON.
BadJson == "{"

\* JSON.parse(text) raises a SyntaxError.
JsonParseThrows(t) == t = BadJson

IsPrefix(p, q) == Len(p) <= Len(q) /\ SubSeq(q, 1, Len(p)) = p

ParentPath(p) == SubSeq(p, 1, Len(p) - 1)

DiskKind(D, p) ==
  IF p = <<>> THEN "dir"
  ELSE IF \E e \in D : e.path = p THEN (CHOOSE e \in D : e.path = p).kind
  ELSE "none"

DiskBelow(D, p) == {e \in D : IsPrefix(p, e.path)}

\* FSP.mkdir(p, {recursive: true}): fails when p or one of its ancestors is
\* a file; an existing directory is no error.
FsMkdirOk(D, p) == \A k \in 1..Len(p) : DiskKind(D, SubSeq(p, 1, k)) # "file"

FsMkdir(D, p) ==
  D \cup {[path |-> SubSeq(p, 1, k), kind |-> "dir", text |-> NoText] :
           k \in {j \in 1..Len(p) : DiskKind(D, SubSeq(p, 1, j)) = "none"}}

\* FSP.writeFile(p, text): text must be a string, the parent must be a
\* directory and p must not be one; an existing file is overwritten.
FsWriteFileOk(D, p, text) ==
  /\ text # NoText
  /\ p # <<>>
  /\ DiskKind(D, ParentPath(p)) = "dir"
  /\ DiskKind(D, p) # "dir"

FsWriteFile(D, p, text) ==
  {e \in D : e.path # p} \cup {[path |-> p, kind |-> "file", text |-> text]}

\* FSP.rename(old, new), rename(2): old must exist, the parent of new must
\* be a directory, a directory cannot move below itself, and an existing
\* target must be a file (for a file) or an empty directory (for a directory).
FsRenameOk(D, old, new) ==
  /\ old # <<>>
  /\ new # <<>>
  /\ DiskKind(D, old) # "none"
  /\ DiskKind(D, ParentPath(new)) = "dir"
  /\ \/ old = new
     \/ /\ ~IsPrefix(old, new)
        /\ \/ DiskKind(D, new) = "none"
           \/ DiskKind(D, old) = "file" /\ DiskKind(D, new) = "file"
           \/ /\ DiskKind(D, old) = "dir"
              /\ DiskKind(D, new) = "dir"
              /\ \A e \in DiskBelow(D, new) : e.path = new

FsRename(D, old, new) ==
  IF old = new THEN D
  ELSE LET moved == DiskBelow(D, old)
           kept == (D \ moved) \ DiskBelow(D, new)
       IN kept \cup {[path |-> new \o SubSeq(e.path, Len(old) + 1, Len(e.path)),
                      kind |-> e.kind, text |-> e.text] : e \in moved}

\* FSP.rm(p, {recursive: true}): without `force` a missing p is an error.
FsRmOk(D, p) == p # <<>> /\ DiskKind(D, p) # "none"

FsRm(D, p) == D \ DiskBelow(D, p)

(***************************************************************************)
(* The driver's index.  Operators take the index as a record               *)
(* S = [heap, nodes, roots, paths] and return the index they leave.        *)
(* A Node object is identified by its id (two live objects never share     *)
(* one, see Drawable).                                                     *)
(***************************************************************************)

Index == [heap |-> heap, nodes |-> nodes, roots |-> rootNodes, paths |-> paths]

EmptyIndex == [heap |-> <<>>, nodes |-> <<>>, roots |-> <<>>, paths |-> <<>>]

\* _nodes.has(id)
MapHas(S, id) == id \in Range(S.nodes)

\* FsDriver.getNodeById: the node, or NoId for undefined.
getNodeById(S, id) == IF MapHas(S, id) THEN id ELSE NoId

\* The ids something still refers to although the id map no longer holds
\* them: objects left in a children or root collection, dangling pId
\* values, entries of the id-mapping file.
Remembered(S, F) ==
  ((DOMAIN S.heap) \cup {S.heap[n].pId : n \in DOMAIN S.heap} \cup {e.id : e \in F.map})
    \ Range(S.nodes)

\* What one call of prefix + createShortId() may return.  The generator
\* has 36^9 outcomes; the model lets it return any id of the pool, the ids
\* of the id map included, except the remembered ones (a collision with an
\* id that is no longer in the map has negligible probability and no check
\* in the code).
Drawable(S, F, prefix) == IdPool(prefix) \ Remembered(S, F)

\* createNodeId without the lookup in the id map.
createNodeIdUnchecked(S, F, directory) == Drawable(S, F, IF directory THEN "d" ELSE "f")

\* FsDriver.createNodeId: the ids the loop can end with, i.e. the drawable
\* ids that are not in the id map.
createNodeId(S, F, directory) ==
  {id \in Drawable(S, F, IF directory THEN "d" ELSE "f") : ~MapHas(S, id)}

\* FsDriver.createNode(name, {id, isDir, pId}): `fresh` is what
\* createNodeId returns when no id is given.  An explicit id that is in the
\* id map throws before anything is registered.
createNode(S, name, id, isDir, pId, fresh) ==
  IF id # NoId /\ MapHas(S, id)
  THEN [threw |-> TRUE, id |-> NoId, S |-> S]
  ELSE LET nid == IF id = NoId THEN fresh ELSE id
           obj == [name |-> name, pId |-> pId, hasChildren |-> isDir, children |-> <<>>,
                   content |-> Undefined]
       IN [threw |-> FALSE,
           id |-> nid,
           S |-> [S EXCEPT !.heap = (nid :> obj) @@ S.heap,
                           !.paths = (nid :> <<>>) @@ S.paths,
                           !.nodes = SetAdd(S.nodes, nid)]]

\* FsDriver.getNodeContent(id): node?.content
getNodeContent(S, id) ==
  IF getNodeById(S, id) = NoId THEN Undefined ELSE S.heap[id].content

\* The names of the ancestors found by following pId through the id map,
\* outermost first (the loop of getNodePath, lines 401-409).  The chain
\* cannot cycle; `fuel` only keeps the definition total.
RECURSIVE AncestorNames(_, _, _)
AncestorNames(S, pId, fuel) ==
  IF pId = NoId \/ fuel = 0 THEN <<>>
  ELSE LET parent == getNodeById(S, pId)
       IN IF parent = NoId THEN <<>>
          ELSE Append(AncestorNames(S, S.heap[parent].pId, fuel - 1), S.heap[parent].name)

\* The path getNodePath computes when it does not answer from the cache.
ComputedPath(S, id) ==
  JoinPath(Append(AncestorNames(S, S.heap[id].pId, Cardinality(DOMAIN S.heap)),
                  S.heap[id].name))

\* The while loop of getNodeDepth (lines 371-374): one more for every pId
\* on the chain, the node's own pId included.
RECURSIVE DepthLoop(_, _, _, _)
DepthLoop(S, pId, depth, fuel) ==
  IF pId = NoId \/ fuel = 0 THEN depth
  ELSE LET parent == getNodeById(S, pId)
       IN DepthLoop(S, IF parent = NoId THEN NoId ELSE S.heap[parent].pId,
                    depth + 1, fuel - 1)

\* FsDriver.getNodeDepth(node)
getNodeDepth(S, id) ==
  IF S.heap[id].pId = NoId THEN 0
  ELSE DepthLoop(S, S.heap[id].pId, 1, Cardinality(DOMAIN S.heap))

\* A getNodePath that caches the node's name for its path.
getNodePathCachingName(S, id, skipCached) ==
  IF ~skipCached /\ S.paths[id] # <<>>
  THEN [S |-> S, path |-> S.paths[id]]
  ELSE [S |-> [S EXCEPT !.paths[id] = S.heap[id].name], path |-> ComputedPath(S, id)]

\* FsDriver.getNodePath(node, skipCached): the cached path when there is
\* one, else the computed path, which is cached.
getNodePath(S, id, skipCached) ==
  IF ~skipCached /\ S.paths[id] # <<>>
  THEN [S |-> S, path |-> S.paths[id]]
  ELSE LET p == ComputedPath(S, id)
       IN [S |-> [S EXCEPT !.paths[id] = p], path |-> p]

\* FsDriver.getNodeFullPath: Path.join(this.path, nodePath), as segments
\* below the root.
getNodeFullPath(S, id) ==
  LET g == getNodePath(S, id, FALSE)
  IN [S |-> g.S, fsPath |-> FsSegments(g.path)]

\* A lookup that takes an id it does not find for the root.
getFullPathMaybeNodeLenient(S, id) ==
  IF id = NoId \/ getNodeById(S, id) = NoId
  THEN [threw |-> FALSE, S |-> S, fsPath |-> <<>>, node |-> NoId]
  ELSE LET g == getNodeFullPath(S, id)
       IN [threw |-> FALSE, S |-> g.S, fsPath |-> g.fsPath, node |-> id]

\* FsDriver.getFullPathMaybeNode(id): the root path when no id is given,
\* the node and its full path when the id is known, a throw otherwise.
getFullPathMaybeNode(S, id) ==
  IF id = NoId THEN [threw |-> FALSE, S |-> S, fsPath |-> <<>>, node |-> NoId]
  ELSE IF getNodeById(S, id) = NoId
       THEN [threw |-> TRUE, S |-> S, fsPath |-> <<>>, node |-> NoId]
       ELSE LET g == getNodeFullPath(S, id)
            IN [threw |-> FALSE, S |-> g.S, fsPath |-> g.fsPath, node |-> id]

(***************************************************************************)
(* Traversal.  A visitor is a record: [kind |-> "all"] returns undefined   *)
(* for every node, [kind |-> "byPath", parts |-> ...] is the visitor of    *)
(* getNodeByPath, [kind |-> "abortAt", at |-> n] returns true for node n   *)
(* and [kind |-> "pruneAt", at |-> n] returns false for node n;            *)
(* [kind |-> "missing"] is a visitor argument that is undefined: calling   *)
(* it raises a TypeError.                                                  *)
(***************************************************************************)

VisitAll == [kind |-> "all"]

VisitorMissing == [kind |-> "missing"]

\* A visitor whose true is taken for false.
VisitTrueAsFalse(S, v, id, depth) ==
  IF v.kind = "abortAt" /\ id = v.at THEN "skip" ELSE "cont"

\* What the visitor returns: "abort" for true, "skip" for false, "cont"
\* for anything else; "raise" when the call itself throws.
Visit(S, v, id, depth) ==
  CASE v.kind = "all" -> "cont"
    [] v.kind = "missing" -> "raise"
    [] v.kind = "abortAt" -> IF id = v.at THEN "abort" ELSE "cont"
    [] v.kind = "pruneAt" -> IF id = v.at THEN "skip" ELSE "cont"
    [] v.kind = "byPath" ->
         IF depth = Len(v.parts) - 1 /\ v.parts[depth + 1] = S.heap[id].name
         THEN "abort" ELSE "cont"

\* Array.prototype.reverse
Reverse(s) == [i \in 1..Len(s) |-> s[Len(s) + 1 - i]]

\* The stack items for the children of a node visited at `depth`.
ChildItems(children, depth) ==
  [j \in 1..Len(children) |-> [node |-> children[j], depth |-> depth + 1, order |-> j - 1]]

\* A traversal that visits this many nodes never ends: without a cycle the
\* children collections of n objects hold fewer than 2^n paths.
TraversalFuel(S) == 2 ^ Cardinality(DOMAIN S.heap)

\* The while loop of eachNode (lines 277-307) on one root's stack; the top
\* of the stack is its last element.
RECURSIVE Walk(_, _, _, _, _)
Walk(S, v, stack, visits, fuel) ==
  IF stack = <<>> THEN [visits |-> visits, end |-> "done"]
  ELSE IF fuel = 0 THEN [visits |-> visits, end |-> "diverged"]
  ELSE LET top == stack[Len(stack)]
           rest == SubSeq(stack, 1, Len(stack) - 1)
           obj == S.heap[top.node]
           seen == Append(visits, top)
           returned == Visit(S, v, top.node, top.depth)
       IN IF returned = "raise"
          THEN [visits |-> visits, end |-> "threw", at |-> top.node]
          ELSE IF returned = "abort" THEN [visits |-> seen, end |-> "aborted"]
          ELSE IF returned = "skip" THEN Walk(S, v, rest, seen, fuel - 1)
          ELSE IF obj.hasChildren
               THEN Walk(S, v, rest \o Reverse(ChildItems(obj.children, top.depth)),
                         seen, fuel - 1)
               ELSE Walk(S, v, rest, seen, fuel - 1)

\* The for loop of eachNode over the root collection (lines 259-309).
RECURSIVE EachRoot(_, _, _, _, _, _)
EachRoot(S, v, rootSeq, i, visits, fuel) ==
  IF i > Len(rootSeq) THEN [visits |-> visits, end |-> "done"]
  ELSE LET w == Walk(S, v, <<[node |-> rootSeq[i], depth |-> 0, order |-> i - 1]>>,
                     visits, fuel)
       IN IF w.end # "done" THEN w
          ELSE EachRoot(S, v, rootSeq, i + 1, w.visits,
                        fuel - (Len(w.visits) - Len(visits)))

\* FsDriver.eachNode(within, visitor): the visits made, in order, each
\* [node, depth, order], and how the traversal ended: "done", "aborted"
\* (the visitor returned true), "threw" (calling the visitor raised, at
\* node `at`) or "diverged" (it never returns).
eachNode(S, within, v) ==
  IF within # NoId /\ ~S.heap[within].hasChildren
  THEN [visits |-> <<>>, end |-> "done"]
  ELSE EachRoot(S, v, IF within = NoId THEN S.roots ELSE S.heap[within].children,
                1, <<>>, TraversalFuel(S))

\* FsDriver.getNodeByPath(path): the node the traversal stops at, NoId for
\* undefined.
getNodeByPath(S, path) ==
  LET w == eachNode(S, NoId, [kind |-> "byPath", parts |-> SplitPath(path)])
  IN [hang |-> w.end = "diverged",
      node |-> IF w.end = "aborted" THEN w.visits[Len(w.visits)].node ELSE NoId]

RECURSIVE MappedNodes(_, _, _)
RECURSIVE MapNodeInfo(_, _)

\* The nodes eachNode hands to mapNode: the members of the starting
\* collection and the children of every node it visits.
MappedNodes(S, start, visits) ==
  start \o (IF visits = <<>> THEN <<>>
            ELSE LET ch == S.heap[visits[1].node].children
                 IN ch \o MappedNodes(S, <<>>, Tail(visits)))

\* A mapNode that leaves the root collection in reverse order.
MapNodeReversing(S, ids) == [S EXCEPT !.roots = Reverse(S.roots)]

\* The mapNode of FsTransaction.eachNode applied to each of `ids` in
\* turn: driver.getNodePath(node) caches the path it returns.
MapNodeInfo(S, ids) ==
  IF ids = <<>> THEN S
  ELSE MapNodeInfo(getNodePath(S, Head(ids), FALSE).S, Tail(ids))

\* FsTransaction.eachNode(withinId, visitor): an id that is not in the id
\* map gives the whole forest, a file gives no visit at all.
trxEachNode(S, withinId, v) ==
  LET within == IF withinId = NoId THEN NoId ELSE getNodeById(S, withinId)
      w == eachNode(S, within, v)
      start == IF within = NoId THEN S.roots ELSE S.heap[within].children
      \* the children of the node whose visit raised were mapped already
      tail == IF w.end = "threw" THEN S.heap[w.at].children ELSE <<>>
  IN IF within # NoId /\ ~S.heap[within].hasChildren
     THEN [S |-> S, visits |-> <<>>, end |-> "done"]
     ELSE [S |-> MapNodeInfo(S, MappedNodes(S, start, w.visits) \o tail),
           visits |-> w.visits, end |-> w.end]

\* The callback of Database.printDirectory: files.eachNode(visitor).  The
\* visitor is passed where FsTransaction.eachNode takes withinId: no node
\* has a function for its id, so the forest is traversed, and the visitor
\* parameter is undefined.
printDirectory(S) == trxEachNode(S, NoId, VisitorMissing)

\* FsDriver.removeNodeFromParent(node), with the default parentNode
\* node.entry.pId.  Dereferencing a parent that is not in the id map, or
\* the children of a parent that has none, throws a TypeError.
removeNodeFromParent(S, id) ==
  LET pId == S.heap[id].pId
  IN IF pId = NoId
     THEN [threw |-> FALSE, S |-> [S EXCEPT !.roots = SetDelete(S.roots, id)]]
     ELSE LET parentNode == getNodeById(S, pId)
          IN IF parentNode = NoId \/ ~S.heap[parentNode].hasChildren
             THEN [threw |-> TRUE, S |-> S]
             ELSE [threw |-> FALSE,
                   S |-> [S EXCEPT !.heap[parentNode].children =
                                      SetDelete(S.heap[parentNode].children, id)]]

\* FsDriver.setNodeParent(node, parentNode), parentNode a Node or undefined.
setNodeParent(S, id, parentNode) ==
  IF parentNode = NoId
  THEN [threw |-> FALSE, S |-> [S EXCEPT !.roots = SetAdd(S.roots, id)]]
  ELSE IF ~S.heap[parentNode].hasChildren
       THEN [threw |-> TRUE, S |-> S]
       ELSE [threw |-> FALSE,
             S |-> [S EXCEPT !.heap[parentNode].children =
                                SetAdd(S.heap[parentNode].children, id)]]

\* orderByNodeName(a, b) < 0
NameBefore(S, a, b) == StrLess(S.heap[a].name, S.heap[b].name)

\* [...nodes.values()].sort(orderByNodeName): Array.prototype.sort is
\* stable, so x goes behind every element that does not come after it.
RECURSIVE sortNodes(_, _)
sortNodes(S, s) ==
  IF s = <<>> THEN <<>>
  ELSE LET x == s[Len(s)]
           front == sortNodes(S, SubSeq(s, 1, Len(s) - 1))
           k == Cardinality({i \in DOMAIN front : ~NameBefore(S, x, front[i])})
       IN SubSeq(front, 1, k) \o <<x>> \o SubSeq(front, k + 1, Len(front))

\* FsDriver.sortNodeSiblings(node): re-sorts the collection named by
\* node.entry.pId.
sortNodeSiblings(S, id) ==
  LET pId == S.heap[id].pId
  IN IF pId = NoId
     THEN [threw |-> FALSE, S |-> [S EXCEPT !.roots = sortNodes(S, S.roots)]]
     ELSE LET parentNode == getNodeById(S, pId)
          IN IF parentNode = NoId \/ ~S.heap[parentNode].hasChildren
             THEN [threw |-> TRUE, S |-> S]
             ELSE [threw |-> FALSE,
                   S |-> [S EXCEPT !.heap[parentNode].children =
                                      sortNodes(S, S.heap[parentNode].children)]]

\* The ids visited by a traversal.
Visited(w) == {w.visits[i].node : i \in DOMAIN w.visits}

\* FsDriver.removeNodeCachedPaths(node): purge the cached path of the node
\* and of every node the traversal below it visits.
removeNodeCachedPaths(S, id) ==
  LET w == IF isDirectoryNode(id) THEN eachNode(S, id, VisitAll)
           ELSE [visits |-> <<>>, end |-> "done"]
      gone == {id} \cup Visited(w)
  IN [hang |-> w.end = "diverged",
      S |-> [S EXCEPT !.paths = [n \in DOMAIN S.paths |->
                                   IF n \in gone THEN <<>> ELSE S.paths[n]]]]

\* FsDriver.removeNode(node): detach from the parent named by pId, delete
\* from the id map and the path cache, and, for a directory, delete every
\* node the traversal below it visits.  Returns `found`.
removeNode(S, id) ==
  LET d == removeNodeFromParent(S, id)
      w == IF isDirectoryNode(id) THEN eachNode(d.S, id, VisitAll)
           ELSE [visits |-> <<>>, end |-> "done"]
      gone == {id} \cup Visited(w)
  IN IF d.threw THEN [threw |-> TRUE, hang |-> FALSE, found |-> FALSE, S |-> S]
     ELSE [threw |-> FALSE,
           hang |-> w.end = "diverged",
           found |-> MapHas(S, id),
           S |-> [d.S EXCEPT !.nodes = SelectSeq(d.S.nodes, LAMBDA n : n \notin gone),
                             !.paths = [n \in DOMAIN d.S.paths |->
                                          IF n \in gone THEN <<>> ELSE d.S.paths[n]]]]

\* Objects no collection and no map entry reaches are garbage.
RECURSIVE ReachableFrom(_, _)
ReachableFrom(S, seen) ==
  LET more == UNION {Range(S.heap[n].children) : n \in seen} \ seen
  IN IF more = {} THEN seen ELSE ReachableFrom(S, seen \cup more)

Live(S) == ReachableFrom(S, Range(S.nodes) \cup Range(S.roots))

Collect(S) ==
  [S EXCEPT !.heap = [n \in Live(S) |-> S.heap[n]],
            !.paths = [n \in Live(S) |-> S.paths[n]]]

\* The same, with the objects of `held` referenced from a suspended call.
CollectHolding(S, held) ==
  LET live == Live(S) \cup ReachableFrom(S, held)
  IN [S EXCEPT !.heap = [n \in live |-> S.heap[n]],
               !.paths = [n \in live |-> S.paths[n]]]

(***************************************************************************)
(* FsTransaction.  An operation takes the index S and the disk D and       *)
(* returns what it leaves: [S, D, outcome, failed, ret], outcome "ok"      *)
(* (it returned ret), "threw" or "hang" (it never returns); failed names   *)
(* the file-system call that rejected: "call" (mkdir, writeFile, rename,   *)
(* rm), "stat" (the FSP.stat that follows it) or "none".  The input io     *)
(* makes one of them reject for a reason outside the model (EACCES, EIO,   *)
(* a concurrent change of the directory); the side-effect call also        *)
(* rejects when the disk says so.                                          *)
(***************************************************************************)

Result(S, D, outcome, failed, ret) ==
  [S |-> S, D |-> D, outcome |-> outcome, failed |-> failed, ret |-> ret]

IoOutcomes == {"ok", "failCall", "failStat"}

\* The common tail of addDirectory and addFile: createNode, setNodeParent,
\* sortNodeSiblings, return node.id.
RegisterNode(S, D, name, isDir, pId, parentNode, fresh) ==
  LET c == createNode(S, name, NoId, isDir, pId, fresh)
      p == setNodeParent(c.S, c.id, parentNode)
      s == sortNodeSiblings(p.S, c.id)
  IN IF p.threw THEN Result(c.S, D, "threw", "none", Undefined)
     ELSE IF s.threw THEN Result(p.S, D, "threw", "none", Undefined)
     ELSE Result(s.S, D, "ok", "none", c.id)

\* FsTransaction.addDirectory(name, pId)
addDirectory(S, D, name, pId, io, fresh) ==
  LET g == getFullPathMaybeNode(S, pId)
      newPath == Append(g.fsPath, name)
  IN IF g.threw THEN Result(S, D, "threw", "none", Undefined)
     ELSE IF ~(io # "failCall" /\ FsMkdirOk(D, newPath)) THEN Result(g.S, D, "threw", "call", Undefined)
     ELSE IF io = "failStat" THEN Result(g.S, FsMkdir(D, newPath), "threw", "stat", Undefined)
     ELSE RegisterNode(g.S, FsMkdir(D, newPath), name, TRUE, pId, g.node, fresh)

\* FsTransaction.addFile(name, {data, pId})
addFile(S, D, name, data, pId, io, fresh) ==
  LET g == getFullPathMaybeNode(S, pId)
      newPath == Append(g.fsPath, name)
      json == JsonStringify(data)
  IN IF g.threw THEN Result(S, D, "threw", "none", Undefined)
     ELSE IF ~(io # "failCall" /\ FsWriteFileOk(D, newPath, json))
          THEN Result(g.S, D, "threw", "call", Undefined)
     ELSE IF io = "failStat"
          THEN Result(g.S, FsWriteFile(D, newPath, json), "threw", "stat", Undefined)
     ELSE RegisterNode(g.S, FsWriteFile(D, newPath, json), name, FALSE, pId, g.node, fresh)

\* The index part of move, after the rename on disk (lines 164-170).
MoveIndex(S, D, node, newParent) ==
  LET c == removeNodeCachedPaths(S, node)
      d == removeNodeFromParent(c.S, node)
      p == setNodeParent(d.S, node, newParent)
      s == sortNodeSiblings(p.S, node)
      r == getNodePath(s.S, node, FALSE)
  IN IF c.hang THEN Result(S, D, "hang", "none", Undefined)
     ELSE IF d.threw THEN Result(c.S, D, "threw", "none", Undefined)
     ELSE IF p.threw THEN Result(d.S, D, "threw", "none", Undefined)
     ELSE IF s.threw THEN Result(p.S, D, "threw", "none", Undefined)
     ELSE Result(r.S, D, "ok", "none", r.path)

\* FsTransaction.move(id, toId): toId = NoId stands for null.
move(S, D, id, toId, io) ==
  LET node == getNodeById(S, id)
      g == getFullPathMaybeNode(S, toId)
      f == getNodeFullPath(g.S, node)
      newPath == Append(g.fsPath, S.heap[node].name)
  IN IF node = NoId THEN Result(S, D, "threw", "none", Undefined)
     ELSE IF g.threw THEN Result(S, D, "threw", "none", Undefined)
     ELSE IF ~(io # "failCall" /\ FsRenameOk(D, f.fsPath, newPath))
          THEN Result(f.S, D, "threw", "call", Undefined)
     ELSE IF io = "failStat"
          THEN Result(f.S, FsRename(D, f.fsPath, newPath), "threw", "stat", Undefined)
          ELSE MoveIndex(f.S, FsRename(D, f.fsPath, newPath), node, g.node)

\* FsTransaction.path(id)
path(S, D, id) ==
  LET node == getNodeById(S, id)
      r == getNodePath(S, node, FALSE)
  IN IF node = NoId THEN Result(S, D, "ok", "none", Undefined)
     ELSE Result(r.S, D, "ok", "none", r.path)

\* FsTransaction.remove(id)
remove(S, D, id, io) ==
  LET node == getNodeById(S, id)
      f == getNodeFullPath(S, node)
      r == removeNode(f.S, node)
  IN IF node = NoId THEN Result(S, D, "ok", "none", <<FALSE>>)
     ELSE IF ~(io # "failCall" /\ FsRmOk(D, f.fsPath)) THEN Result(f.S, D, "threw", "call", Undefined)
     ELSE IF r.threw THEN Result(f.S, FsRm(D, f.fsPath), "threw", "none", Undefined)
     ELSE IF r.hang THEN Result(r.S, FsRm(D, f.fsPath), "hang", "none", Undefined)
     ELSE Result(r.S, FsRm(D, f.fsPath), "ok", "none", <<r.found>>)

\* The index part of rename, after the rename on disk (lines 206-211).
RenameIndex(S, D, node, name, io) ==
  LET S1 == [S EXCEPT !.heap[node].name = name]
      c == removeNodeCachedPaths(S1, node)
      s == sortNodeSiblings(c.S, node)
      r == getNodePath(s.S, node, FALSE)
  IN IF io = "failStat" THEN Result(S1, D, "threw", "stat", Undefined)
     ELSE IF c.hang THEN Result(S1, D, "hang", "none", Undefined)
     ELSE IF s.threw THEN Result(c.S, D, "threw", "none", Undefined)
     ELSE Result(r.S, D, "ok", "none", r.path)

\* rename with entry.name assigned ahead of the rename on disk.
renameEager(S, D, id, name, io) ==
  LET node == getNodeById(S, id)
      f == getNodeFullPath(S, node)
      newPath == Append(ParentPath(f.fsPath), name)
      S1 == [f.S EXCEPT !.heap[node].name = name]
  IN IF node = NoId THEN Result(S, D, "threw", "none", Undefined)
     ELSE IF ~(io # "failCall" /\ FsRenameOk(D, f.fsPath, newPath))
          THEN Result(S1, D, "threw", "call", Undefined)
          ELSE RenameIndex(f.S, FsRename(D, f.fsPath, newPath), node, name, io)

\* FsTransaction.rename(id, name)
rename(S, D, id, name, io) ==
  LET node == getNodeById(S, id)
      f == getNodeFullPath(S, node)
      newPath == Append(ParentPath(f.fsPath), name)
  IN IF node = NoId THEN Result(S, D, "threw", "none", Undefined)
     ELSE IF ~(io # "failCall" /\ FsRenameOk(D, f.fsPath, newPath))
          THEN Result(f.S, D, "threw", "call", Undefined)
          ELSE RenameIndex(f.S, FsRename(D, f.fsPath, newPath), node, name, io)

\* path.endsWith("/") ? path.substring(0, path.length - 1) : path
StripSlash(p) == IF p # <<>> /\ p[Len(p)] = Sep THEN SubSeq(p, 1, Len(p) - 1) ELSE p

\* FsTransaction.id(path): the id of the node found, or undefined.
id(S, p) ==
  LET r == getNodeByPath(S, StripSlash(p))
  IN IF r.hang THEN [outcome |-> "hang", ret |-> Undefined]
     ELSE [outcome |-> "ok", ret |-> IF r.node = NoId THEN Undefined ELSE r.node]

(***************************************************************************)
(* FsDriver.open and FsDriver.close.                                       *)
(***************************************************************************)

\* The entries the glob of open() returns: every directory, and every file
\* whose name ends in ".json".
ScanSet(D) == {e \in D : e.kind = "dir" \/ e.path[Len(e.path)] \in JsonNames}

\* srcNode.relative() / relativePosix(): the path below the root, as a string.
RelPath(p) == JoinPath(p)

\* The scan sorted by relative path (lines 123-129).
RECURSIVE SortByPath(_)
SortByPath(E) ==
  IF E = {} THEN <<>>
  ELSE LET m == CHOOSE e \in E :
                  \A o \in E \ {e} : StrLess(RelPath(e.path), RelPath(o.path))
       IN <<m>> \o SortByPath(E \ {m})

\* loadIdsFile() then idsFile?.[pathFromRoot]: NoId when there is no file
\* or no entry.
IdsLookup(F, on, p) ==
  IF on /\ F.present /\ (\E e \in F.map : e.path = p)
  THEN (CHOOSE e \in F.map : e.path = p).id
  ELSE NoId

\* The loop of open() (lines 138-171) from entry i on.  st is the loop's
\* state: the driver's index st.S (createNode registers in this._nodes),
\* the local rootNodes (this._rootNodes itself unless dirty) and
\* dirsByPath.  pick gives, per entry, the suffix the id generator returns
\* if asked; st.valid says that every such id is one createNodeId can
\* return.
RECURSIVE OpenLoop(_, _, _, _, _, _, _)
OpenLoop(st, F, on, dirty, entries, i, pick) ==
  IF i > Len(entries) \/ st.threw \/ ~st.valid THEN st
  ELSE LET e == entries[i]
           isDirectory == e.kind = "dir"
           explicit == IdsLookup(F, on, RelPath(e.path))
           fresh == <<IF isDirectory THEN "d" ELSE "f", pick[e.path]>>
           c == createNode(st.S, e.path[Len(e.path)], explicit, isDirectory, NoId, fresh)
           dirs1 == IF isDirectory
                    THEN {x \in st.dirs : x.path # e.path} \cup {[path |-> e.path, node |-> c.id]}
                    ELSE st.dirs
           parentNode == (CHOOSE x \in st.dirs : x.path = ParentPath(e.path)).node
           content == IF isDirectory THEN Undefined ELSE JsonParse(e.text)
           \* the node in the root collection or in its parent's children
           linked == IF Len(e.path) = 1
                     THEN IF dirty THEN c.S
                          ELSE [c.S EXCEPT !.roots = SetAdd(c.S.roots, c.id)]
                     ELSE [c.S EXCEPT !.heap[c.id].pId = parentNode,
                                      !.heap[parentNode].children =
                                         SetAdd(c.S.heap[parentNode].children, c.id)]
           roots1 == IF Len(e.path) = 1 THEN SetAdd(st.rootNodes, c.id) ELSE st.rootNodes
       IN IF explicit = NoId /\ fresh \notin createNodeId(st.S, F, isDirectory)
          THEN [st EXCEPT !.valid = FALSE]
          ELSE IF c.threw THEN [st EXCEPT !.threw = TRUE]
          ELSE IF ~isDirectory /\ JsonParseThrows(e.text)
               THEN [st EXCEPT !.S = linked, !.rootNodes = roots1, !.threw = TRUE]
          ELSE OpenLoop([st EXCEPT !.S = [linked EXCEPT !.heap[c.id].content = content],
                                   !.rootNodes = roots1,
                                   !.dirs = dirs1],
                        F, on, dirty, entries, i + 1, pick)

\* FsDriver.open(), not yet opened: [valid, threw, S].  When it throws,
\* the index is left as the loop left it.
driverOpen(S, F, on, D, pick) ==
  LET dirty == Len(S.nodes) > 0
      st0 == [S |-> S, rootNodes |-> IF dirty THEN <<>> ELSE S.roots,
              dirs |-> {}, threw |-> FALSE, valid |-> TRUE]
      st == OpenLoop(st0, F, on, dirty, SortByPath(ScanSet(D)), 1, pick)
  IN [valid |-> st.valid,
      threw |-> st.threw,
      S |-> IF st.threw THEN st.S
            ELSE [st.S EXCEPT !.nodes = IF dirty THEN <<>> ELSE st.S.nodes,
                              !.roots = st.rootNodes]]

\* The object writeIdsFile() builds: one entry per node of the id map, in
\* map order, a later node replacing an earlier one with the same path.
RECURSIVE IdsOf(_, _, _)
IdsOf(S, i, acc) ==
  IF i > Len(S.nodes) THEN acc
  ELSE LET n == S.nodes[i]
           g == getNodePath(S, n, FALSE)
       IN IdsOf(g.S, i + 1,
                {e \in acc : e.path # g.path} \cup {[path |-> g.path, id |-> n]})

\* FsDriver.close(), opened: write the ids file when configured, then
\* replace the id map and the root set by empty ones.
driverClose(S, F, on) ==
  [F |-> IF on THEN [present |-> TRUE, map |-> IdsOf(S, 1, {})] ELSE F,
   S |-> [S EXCEPT !.nodes = <<>>, !.roots = <<>>]]

(***************************************************************************)
(* Actions on the tree.                                                    *)
(***************************************************************************)

NoLast == [op |-> "none", id |-> NoId, arg |-> NoId, outcome |-> "ok",
           failed |-> "none", ret |-> Undefined]

Hung == last.outcome = "hang"

\* No operation is suspended.
NoPending == [op |-> "none", name |-> <<>>, pId |-> NoId, parentNode |-> NoId]

\* The Node a suspended operation holds a reference to.
Held(pd) == IF pd.parentNode = NoId THEN {} ELSE {pd.parentNode}

\* The index after an operation, garbage dropped; `held` are the objects a
\* suspended operation refers to.
SetIndexHolding(S, held) ==
  LET C == IF held = {} THEN Collect(S) ELSE CollectHolding(S, held)
  IN /\ heap' = C.heap
     /\ nodes' = C.nodes
     /\ rootNodes' = C.roots
     /\ paths' = C.paths

SetIndex(S) == SetIndexHolding(S, Held(pending))

\* The state after a transaction operation that returned R.
Apply(op, i, a, R) ==
  /\ SetIndex(R.S)
  /\ disk' = R.D
  /\ last' = [op |-> op, id |-> i, arg |-> a, outcome |-> R.outcome,
              failed |-> R.failed, ret |-> R.ret]
  /\ UNCHANGED <<idsOn, idsFile, drvOpened>>
  /\ UNCHANGED queueVars

CanMutate == dbOpened /\ ~Hung /\ nOps < MaxOps

HasRoom == Cardinality(DOMAIN heap) < MaxNodes

\* The ids given to an operation: every id of the id map, and one id that
\* is not in it (when the pool has one left).
UnknownIds == AllIds \ Range(nodes)

IdInputs ==
  Range(nodes) \cup (IF UnknownIds = {} THEN {}
                     ELSE {CHOOSE i \in UnknownIds : \A j \in UnknownIds : i[1] = j[1] => i[2] <= j[2]})

\* Database.open(): FsDriver.open(), then _opened = true.
DbOpen ==
  /\ ~dbOpened
  /\ ~Hung
  /\ nOps < MaxOps
  /\ ~drvOpened
  /\ Cardinality(ScanSet(disk)) + Cardinality(DOMAIN heap) <= MaxNodes
  /\ \E pick \in [{e.path : e \in ScanSet(disk)} -> 1..MaxIds] :
       LET o == driverOpen(Index, idsFile, idsOn, disk, pick)
       IN /\ o.valid
          /\ SetIndex(o.S)
          /\ drvOpened' = ~o.threw
          /\ dbOpened' = ~o.threw
          /\ last' = [NoLast EXCEPT !.op = "open",
                                    !.outcome = IF o.threw THEN "threw" ELSE "ok"]
  /\ nOps' = nOps + 1
  /\ UNCHANGED <<disk, idsOn, idsFile, pending>>
  /\ UNCHANGED <<queue, running, cur, cbState, handle, runErr, kindOf, started, nTxn>>

\* Database.close(): _opened = false, then FsDriver.close().
DbClose ==
  /\ dbOpened
  /\ ~Hung
  /\ nOps < MaxOps
  /\ LET o == IF drvOpened THEN driverClose(Index, idsFile, idsOn)
              ELSE [F |-> idsFile, S |-> Index]
     IN /\ SetIndex(o.S)
        /\ idsFile' = o.F
  /\ dbOpened' = FALSE
  /\ drvOpened' = FALSE
  /\ last' = [NoLast EXCEPT !.op = "close"]
  /\ nOps' = nOps + 1
  /\ UNCHANGED <<disk, idsOn, pending>>
  /\ UNCHANGED <<queue, running, cur, cbState, handle, runErr, kindOf, started, nTxn>>

AddDirectory ==
  /\ CanMutate
  /\ HasRoom
  /\ \E name \in Names, pId \in IdInputs \cup {NoId}, io \in IoOutcomes :
       \E fresh \in createNodeId(Index, idsFile, TRUE) :
         Apply("addDirectory", pId, NoId, addDirectory(Index, disk, name, pId, io, fresh))
  /\ nOps' = nOps + 1
  /\ UNCHANGED pending

\* The data written and the fate of the file-system calls: undefined is
\* tried where nothing else fails.
AddFileInputs ==
  {[data |-> d, io |-> io] : d \in DataInputs, io \in IoOutcomes} \
    {[data |-> Undefined, io |-> io] : io \in IoOutcomes \ {"ok"}}

AddFile ==
  /\ CanMutate
  /\ HasRoom
  /\ \E name \in Names, pId \in IdInputs \cup {NoId}, inp \in AddFileInputs :
       \E fresh \in createNodeId(Index, idsFile, FALSE) :
         Apply("addFile", pId, NoId,
               addFile(Index, disk, name, inp.data, pId, inp.io, fresh))
  /\ nOps' = nOps + 1
  /\ UNCHANGED pending

Move ==
  /\ CanMutate
  /\ \E i \in IdInputs, toId \in IdInputs \cup {NoId}, io \in IoOutcomes :
       Apply("move", i, toId, move(Index, disk, i, toId, io))
  /\ nOps' = nOps + 1
  /\ UNCHANGED pending

Remove ==
  /\ CanMutate
  /\ \E i \in IdInputs, io \in IoOutcomes \ {"failStat"} :
       Apply("remove", i, NoId, remove(Index, disk, i, io))
  /\ nOps' = nOps + 1
  /\ UNCHANGED pending

Rename ==
  /\ CanMutate
  /\ \E i \in IdInputs, name \in Names, io \in IoOutcomes :
       Apply("rename", i, NoId, rename(Index, disk, i, name, io))
  /\ nOps' = nOps + 1
  /\ UNCHANGED pending

\* trx.path(id)
PathQuery ==
  /\ CanMutate
  /\ \E i \in IdInputs : Apply("path", i, NoId, path(Index, disk, i))
  /\ nOps' = nOps + 1
  /\ UNCHANGED pending

\* The path strings given to trx.id: what trx.path returns for the nodes
\* of the id map.
PathInputs == {path(Index, disk, n).ret : n \in Range(nodes)}

\* trx.id(path)
IdQuery ==
  /\ CanMutate
  /\ \E p \in PathInputs :
       LET r == id(Index, p)
       IN Apply("id", NoId, p, Result(Index, disk, r.outcome, "none", r.ret))
  /\ nOps' = nOps + 1
  /\ UNCHANGED pending

\* trx.addDirectory(name, pId) from its call to its suspension on the
\* file-system call (lines 33-40): the parent is resolved and mkdir has
\* acted; if that already fails the operation is over.
AddDirectoryBegin ==
  /\ CanMutate
  /\ HasRoom
  /\ pending.op = "none"
  /\ \E name \in Names, pId \in IdInputs \cup {NoId}, io \in {"ok", "failCall"} :
       LET g == getFullPathMaybeNode(Index, pId)
           newPath == Append(g.fsPath, name)
       IN IF g.threw \/ ~(io = "ok" /\ FsMkdirOk(disk, newPath))
          THEN /\ Apply("addDirectory", pId, NoId,
                        addDirectory(Index, disk, name, pId, "failCall", NoId))
               /\ UNCHANGED pending
          ELSE /\ SetIndexHolding(g.S, {})
               /\ disk' = FsMkdir(disk, newPath)
               /\ pending' = [op |-> "addDirectory", name |-> name, pId |-> pId,
                              parentNode |-> g.node]
               /\ last' = [NoLast EXCEPT !.op = "addDirectory", !.id = pId,
                                          !.outcome = "suspended"]
               /\ UNCHANGED <<idsOn, idsFile, drvOpened>>
               /\ UNCHANGED queueVars
  /\ nOps' = nOps + 1

\* The suspended addDirectory resumes (lines 42-49): stat, createNode,
\* setNodeParent, sortNodeSiblings, whatever happened to the database in
\* between.
AddDirectoryFinish ==
  /\ pending.op = "addDirectory"
  /\ ~Hung
  /\ \E io \in {"ok", "failStat"} :
       \E fresh \in createNodeId(Index, idsFile, TRUE) :
         LET R == IF io = "failStat"
                  THEN Result(Index, disk, "threw", "stat", Undefined)
                  ELSE RegisterNode(Index, disk, pending.name, TRUE, pending.pId,
                                    pending.parentNode, fresh)
         IN /\ SetIndexHolding(R.S, {})
            /\ disk' = R.D
            /\ last' = [op |-> "addDirectory", id |-> pending.pId, arg |-> NoId,
                        outcome |-> R.outcome, failed |-> R.failed, ret |-> R.ret]
  /\ pending' = NoPending
  /\ UNCHANGED <<nOps, idsOn, idsFile, drvOpened>>
  /\ UNCHANGED queueVars

\* The visitors given to trx.eachNode: one that returns nothing, and for
\* each indexed node one that returns true there and one that returns
\* false there.
VisitorInputs ==
  {VisitAll} \cup {[kind |-> k, at |-> n] : k \in {"abortAt", "pruneAt"}, n \in Range(nodes)}

\* The calls of trx.eachNode: the whole forest with each visitor, and each
\* directory with the visitor that returns nothing.
EachNodeInputs ==
  {[within |-> NoId, v |-> v] : v \in VisitorInputs}
    \cup {[within |-> n, v |-> VisitAll] : n \in {m \in Range(nodes) : isDirectoryNode(m)}}

\* The operation before this one was the same call of trx.eachNode.
SameCallAsLast(withinId, v) ==
  /\ last.op = "eachNode"
  /\ last.id = withinId
  /\ last.ret.kind = v.kind
  /\ last.arg = (IF v.kind = "all" THEN NoId ELSE v.at)

\* trx.eachNode(withinId, visitor): what the visitor was called with, in
\* order, is recorded as the result, with whether the call repeats the
\* one before it.  A traversal changes nothing but the
\* path cache, so it is not counted among the operations; traversals are
\* explored on the trees that the counted operations end with.
EachNode ==
  /\ dbOpened
  /\ ~Hung
  /\ nOps = MaxOps
  /\ \E inp \in EachNodeInputs :
       LET v == inp.v
           withinId == inp.within
           r == trxEachNode(Index, withinId, v)
       IN Apply("eachNode", withinId, IF v.kind = "all" THEN NoId ELSE v.at,
                Result(r.S, disk, IF r.end = "diverged" THEN "hang" ELSE "ok", "none",
                       [kind |-> v.kind, visits |-> r.visits, end |-> r.end,
                        again |-> SameCallAsLast(withinId, v)]))
  /\ UNCHANGED <<nOps, pending>>

\* db.printDirectory() on an idle queue: the transaction runs at once,
\* and its handle rejects with what the callback raised.
PrintDirectory ==
  /\ CanMutate
  /\ LET r == printDirectory(Index)
     IN Apply("printDirectory", NoId, NoId,
              Result(r.S, disk,
                     CASE r.end = "diverged" -> "hang"
                       [] r.end = "threw" -> "threw"
                       [] OTHER -> "ok",
                     "none", [visits |-> r.visits, end |-> r.end]))
  /\ nOps' = nOps + 1
  /\ UNCHANGED pending

RunnerIds == 1..MaxRunners

\* What a callback does when it is invoked: return a plain value, throw a
\* truthy or a falsy value, or return a promise (it awaits I/O).
CallbackKinds == {"return", "throwTruthy", "throwFalsy", "async"}

\* How the promise of an async callback settles.
SettleKinds == {"resolve", "rejectTruthy", "rejectFalsy"}

\* JavaScript truthiness of a recorded err, as tested by `if (err)`.
IsTruthy(e) == e = "truthy"

\* TransactionRunner.run from its start to its first suspension, for a
\* callback of kind k.
RunStart(k) ==
  CASE k = "async"       -> [cb |-> "inProgress", handle |-> "pending", err |-> "none"]
    [] k = "return"      -> [cb |-> "done", handle |-> "resolved", err |-> "none"]
    [] k = "throwTruthy" -> [cb |-> "done", handle |-> "rejected", err |-> "truthy"]
    [] k = "throwFalsy"  -> [cb |-> "done",
                             handle |-> IF IsTruthy("falsy") THEN "rejected" ELSE "resolved",
                             err |-> "falsy"]

\* TransactionRunner.run after the callback's promise settled as s: the
\* .then handler resolves the handle, the .catch handler rejects it.
RunSettle(s) ==
  CASE s = "resolve"      -> [cb |-> "done", handle |-> "resolved", err |-> "none"]
    [] s = "rejectTruthy" -> [cb |-> "done", handle |-> "rejected", err |-> "truthy"]
    [] s = "rejectFalsy"  -> [cb |-> "done", handle |-> "rejected", err |-> "falsy"]

\* A guard that never holds a second drainer back.
AlreadyRunningOff == FALSE

\* The guard of processTransactionQueue.
AlreadyRunning == running

\* A drain loop that goes on whether the database is open or not.
LoopCondNoOpen(q) == Len(q) > 0

\* The continuation condition of the drain loop.
LoopCond(q) == Len(q) > 0 /\ dbOpened

\* queue.pop() in place of queue.shift().
ShiftRunnerLast(q) == [runner |-> q[Len(q)], rest |-> SubSeq(q, 1, Len(q) - 1)]

\* queue.shift()
ShiftRunner(q) == [runner |-> Head(q), rest |-> Tail(q)]

\* A drainer that does not wait for run() to return.
RunFinishedEarly(r) == TRUE

\* `await runner.run()` resumes once run() has returned.
RunFinished(r) == cbState[r] = "done"

\* processTransactionQueue from its loop condition on, entered with the
\* queue q and the runner fields cb0, h0: either the next runner is shifted
\* and its callback started, or the loop ends and the flag is released.
DrainFrom(q, cb0, h0) ==
  IF LoopCond(q)
  THEN \E k \in CallbackKinds :
         LET s == ShiftRunner(q)
             r == s.runner
             o == RunStart(k)
         IN /\ queue' = s.rest
            /\ cur' = r
            /\ running' = TRUE
            /\ cbState' = [cb0 EXCEPT ![r] = o.cb]
            /\ handle' = [h0 EXCEPT ![r] = o.handle]
            /\ runErr' = [runErr EXCEPT ![r] = o.err]
            /\ kindOf' = [kindOf EXCEPT ![r] = k]
            /\ started' = Append(started, r)
  ELSE /\ queue' = q
       /\ cur' = 0
       /\ running' = FALSE
       /\ cbState' = cb0
       /\ handle' = h0
       /\ UNCHANGED <<runErr, kindOf, started>>

\* Database.transaction(cb): enqueue a runner, then call
\* processTransactionQueue, which runs synchronously up to its first await.
Transaction ==
  /\ nTxn < MaxRunners
  /\ nTxn' = nTxn + 1
  /\ LET r == nTxn + 1
         q1 == Append(queue, r)
         cb1 == [cbState EXCEPT ![r] = "queued"]
         h1 == [handle EXCEPT ![r] = "pending"]
     IN IF AlreadyRunning
        THEN /\ queue' = q1
             /\ cbState' = cb1
             /\ handle' = h1
             /\ UNCHANGED <<cur, running, runErr, kindOf, started>>
        ELSE DrainFrom(q1, cb1, h1)
  /\ UNCHANGED dbOpened
  /\ UNCHANGED treeVars

\* The promise returned by the callback of runner r settles.
CallbackSettle ==
  \E r \in RunnerIds, s \in SettleKinds :
    /\ cbState[r] = "inProgress"
    /\ LET o == RunSettle(s)
       IN /\ cbState' = [cbState EXCEPT ![r] = o.cb]
          /\ handle' = [handle EXCEPT ![r] = o.handle]
          /\ runErr' = [runErr EXCEPT ![r] = o.err]
    /\ UNCHANGED <<dbOpened, queue, running, cur, kindOf, started, nTxn>>
    /\ UNCHANGED treeVars

\* The drainer resumes after `await runner.run()`.
DrainResume ==
  /\ cur # 0
  /\ RunFinished(cur)
  /\ IF IsTruthy(runErr[cur])
     THEN /\ running' = FALSE
          /\ cur' = 0
          /\ UNCHANGED <<queue, cbState, handle, runErr, kindOf, started>>
     ELSE DrainFrom(queue, cbState, handle)
  /\ UNCHANGED <<dbOpened, nTxn>>
  /\ UNCHANGED treeVars

(***************************************************************************)
(* Specifications.                                                         *)
(***************************************************************************)

\* A freshly constructed Database: not opened, empty queue, empty index.
QueueInit0 ==
  /\ dbOpened = FALSE
  /\ queue = <<>>
  /\ running = FALSE
  /\ cur = 0
  /\ cbState = [r \in RunnerIds |-> "new"]
  /\ handle = [r \in RunnerIds |-> "pending"]
  /\ runErr = [r \in RunnerIds |-> "none"]
  /\ kindOf = [r \in RunnerIds |-> "none"]
  /\ started = <<>>
  /\ nTxn = 0

TreeInit0 ==
  /\ heap = <<>>
  /\ nodes = <<>>
  /\ rootNodes = <<>>
  /\ paths = <<>>
  /\ drvOpened = FALSE
  /\ nOps = 0
  /\ last = NoLast
  /\ pending = NoPending

Dir(p) == [path |-> p, kind |-> "dir", text |-> NoText]

File(p) == [path |-> p, kind |-> "file", text |-> JsonStringify(DataX1)]

A == <<"a">>

B == <<"b.json">>

\* The data directories a database is constructed on: an empty one,
\* a/ with a/b.json beside an empty b.json/, and two directories that
\* each hold a file b.json.
SmallDisk == {Dir(<<A>>), File(<<A, B>>), Dir(<<B>>)}

TwinDisk == {Dir(<<A>>), File(<<A, B>>), Dir(<<B>>), File(<<B, B>>)}

InitDisks == {{}, SmallDisk, TwinDisk}

NoIdsFile == [present |-> FALSE, map |-> {}]

\* An id-mapping file that names one id for two paths.
ClashingIdsFile ==
  [present |-> TRUE,
   map |-> {[path |-> RelPath(<<A>>), id |-> <<"d", 1>>],
            [path |-> RelPath(<<B>>), id |-> <<"d", 1>>]}]

\* The transaction queue on an empty data directory.
QueueInit ==
  /\ QueueInit0
  /\ TreeInit0
  /\ disk = {}
  /\ idsOn = FALSE
  /\ idsFile = NoIdsFile

QueueNext ==
  \/ Transaction
  \/ CallbackSettle
  \/ DrainResume
  \/ DbOpen
  \/ DbClose

QueueSpec == QueueInit /\ [][QueueNext]_vars

\* The queue with its scheduling: a promise returned by a callback settles
\* (every callback terminates), and a drainer suspended in
\* `await runner.run()` resumes once run() has returned.  Calls of
\* transaction(), open() and close() are the client's and may never come.
QueueLiveSpec ==
  /\ QueueInit
  /\ [][QueueNext]_vars
  /\ WF_vars(CallbackSettle)
  /\ WF_vars(DrainResume)

\* The index under the operations of one transaction after another.  Id
\* persistence is configured on the small data directory and not on the
\* twin one; the empty one is explored both ways.
Init ==
  /\ QueueInit0
  /\ TreeInit0
  /\ disk \in InitDisks
  /\ idsOn \in BOOLEAN
  /\ idsFile \in {NoIdsFile, ClashingIdsFile}
  /\ idsFile.present => idsOn /\ disk = SmallDisk
  /\ disk = SmallDisk => idsOn
  /\ disk = TwinDisk => ~idsOn

Next ==
  \/ DbOpen
  \/ DbClose
  \/ AddDirectory
  \/ AddFile
  \/ Move
  \/ Remove
  \/ Rename
  \/ PathQuery
  \/ IdQuery

Spec == Init /\ [][Next]_vars

\* An addDirectory whose callback is suspended while the database is
\* closed and opened around it.
CloseInit ==
  /\ QueueInit0
  /\ TreeInit0
  /\ disk \in {{}, SmallDisk}
  /\ idsOn \in BOOLEAN
  /\ idsFile = NoIdsFile

CloseNext ==
  \/ DbOpen
  \/ DbClose
  \/ AddDirectoryBegin
  \/ AddDirectoryFinish

CloseSpec == CloseInit /\ [][CloseNext]_vars

\* Traversals of a tree that nodes are moved and renamed in.
TraverseInit ==
  /\ QueueInit0
  /\ TreeInit0
  /\ disk = SmallDisk
  /\ idsOn = FALSE
  /\ idsFile = NoIdsFile

TraverseNext ==
  \/ DbOpen
  \/ Move
  \/ Rename
  \/ EachNode

TraverseSpec == TraverseInit /\ [][TraverseNext]_vars

\* Moves and removes on the small data directory.  These behaviours are
\* explored MaxDeepOps operations deep: the counter of operations starts
\* that much below MaxOps.
MoveRemoveInit ==
  /\ QueueInit0
  /\ heap = <<>>
  /\ nodes = <<>>
  /\ rootNodes = <<>>
  /\ paths = <<>>
  /\ drvOpened = FALSE
  /\ nOps = MaxOps - MaxDeepOps
  /\ last = NoLast
  /\ pending = NoPending
  /\ disk = SmallDisk
  /\ idsOn = FALSE
  /\ idsFile = NoIdsFile

MoveRemoveNext ==
  \/ DbOpen
  \/ Move
  \/ Remove

MoveRemoveSpec == MoveRemoveInit /\ [][MoveRemoveNext]_vars

\* Moves on the small data directory with id persistence on, the database
\* closed and opened again, MaxDeepOps operations deep.
ReopenInit ==
  /\ QueueInit0
  /\ heap = <<>>
  /\ nodes = <<>>
  /\ rootNodes = <<>>
  /\ paths = <<>>
  /\ drvOpened = FALSE
  /\ nOps = MaxOps - MaxDeepOps
  /\ last = NoLast
  /\ pending = NoPending
  /\ disk = SmallDisk
  /\ idsOn = TRUE
  /\ idsFile = NoIdsFile

ReopenNext ==
  \/ DbOpen
  \/ DbClose
  \/ Move

ReopenSpec == ReopenInit /\ [][ReopenNext]_vars

\* A data directory with a file that does not parse.
BrokenDisk == {Dir(<<A>>), [path |-> <<A, B>>, kind |-> "file", text |-> BadJson]}

\* Someone corrects the files that do not parse.
RepairDisk ==
  /\ ~Hung
  /\ nOps < MaxOps
  /\ \E e \in disk : e.kind = "file" /\ JsonParseThrows(e.text)
  /\ disk' = {IF e.kind = "file" /\ JsonParseThrows(e.text) THEN File(e.path) ELSE e : e \in disk}
  /\ last' = [NoLast EXCEPT !.op = "repair"]
  /\ nOps' = nOps + 1
  /\ UNCHANGED <<heap, nodes, rootNodes, paths, drvOpened, idsOn, idsFile, pending>>
  /\ UNCHANGED queueVars

\* Opening a data directory with a file that does not parse, before and
\* after the file is corrected.
FailedOpenInit ==
  /\ QueueInit0
  /\ TreeInit0
  /\ disk = BrokenDisk
  /\ idsOn = FALSE
  /\ idsFile = NoIdsFile

FailedOpenNext ==
  \/ DbOpen
  \/ DbClose
  \/ RepairDisk
  \/ AddDirectory

FailedOpenSpec == FailedOpenInit /\ [][FailedOpenNext]_vars

\* Printing the trees that open() finds and addDirectory makes.
PrintInit ==
  /\ QueueInit0
  /\ TreeInit0
  /\ disk \in {{}, SmallDisk}
  /\ idsOn = FALSE
  /\ idsFile = NoIdsFile

PrintNext ==
  \/ DbOpen
  \/ DbClose
  \/ AddDirectory
  \/ PrintDirectory

PrintSpec == PrintInit /\ [][PrintNext]_vars

\* A tree that is only added to, opened and closed, with id persistence
\* configured.
RoundTripInit ==
  /\ QueueInit0
  /\ TreeInit0
  /\ disk \in {{}, SmallDisk}
  /\ idsOn = TRUE
  /\ idsFile = NoIdsFile

RoundTripNext ==
  \/ DbOpen
  \/ DbClose
  \/ AddDirectory
  \/ AddFile

RoundTripSpec == RoundTripInit /\ [][RoundTripNext]_vars

(***************************************************************************)
(* Properties of the transaction queue (QueueSpec).                        *)
(***************************************************************************)

InProgress == {r \in RunnerIds : cbState[r] = "inProgress"}

\* C1: at any instant at most one transaction callback is in progress
\* (started and suspended, not yet finished), however many transaction()
\* calls were made while an earlier callback was suspended.
C1_OneCallbackInProgress == Cardinality(InProgress) <= 1

\* A callback is suspended while two later calls wait in the queue.
C1_Witness == InProgress # {} /\ Len(queue) >= 2

\* C2: a queued unit of work is started only after the handle of every
\* unit started before it has settled, also when the earlier callback
\* awaits I/O.
C2_StartsAfterPreviousSettled ==
  \A i \in 1..(Len(started) - 1) : handle[started[i]] # "pending"

\* A second unit has started after a first one whose callback awaited I/O
\* while the second was already queued behind it.
C2_Witness ==
  /\ Len(started) >= 2
  /\ kindOf[started[1]] = "async"
  /\ handle[started[2]] = "pending"

\* C3: units are started in the order their transaction() calls were made
\* (runners are numbered in call order), also across drain passes that
\* ended on a failure or a close and were started again.
C3_StartedInCallOrder == \A i \in DOMAIN started : started[i] = i

\* A pass ended on the failure of the first unit while two more were
\* queued, and a later pass started both.
C3_Witness ==
  /\ Len(started) = MaxRunners
  /\ runErr[started[1]] = "truthy"
  /\ kindOf[started[1]] = "async"

(***************************************************************************)
(* Properties of the index (Spec).                                         *)
(***************************************************************************)

\* The index of the next state.
IndexNext == [heap |-> heap', nodes |-> nodes', roots |-> rootNodes', paths |-> paths']

\* The step performs a transaction operation op (every operation counts
\* itself in nOps).
Performs(op) == nOps' = nOps + 1 /\ last'.op = op

\* What trx.path(n) returns in the index S.
PathResult(S, n) == getNodePath(S, n, FALSE).path

\* C4: while the database is open, a node with parentId P is in the
\* children set of P, in no other children set and not in the root set; a
\* node without parentId is in the root set and in no children set; every
\* parentId names a directory node of the index.
C4_ParentChildConsistent ==
  dbOpened =>
    \A n \in Range(nodes) :
      /\ (n \in Range(rootNodes)) <=> (heap[n].pId = NoId)
      /\ \A P \in Range(nodes) :
           (n \in Range(heap[P].children)) <=> (heap[n].pId = P)
      /\ heap[n].pId # NoId =>
           /\ MapHas(Index, heap[n].pId)
           /\ heap[heap[n].pId].hasChildren

\* C5: after a successful move(X, Y) with Y a directory, the returned path
\* and path(X) are path(Y) + "/" + name(X).
C5_MovePathUnderNewParent ==
  (last.op = "move" /\ last.outcome = "ok" /\ last.arg # NoId) =>
    LET want == PathResult(Index, last.arg) \o <<Sep>> \o heap[last.id].name
    IN /\ last.ret = want
       /\ PathResult(Index, last.id) = want

NoDuplicates(s) == \A i, j \in DOMAIN s : s[i] = s[j] => i = j

\* The id-mapping file names one id for two entries of the scan.
DuplicateExplicit ==
  \E e1, e2 \in ScanSet(disk) :
    /\ e1 # e2
    /\ IdsLookup(idsFile, idsOn, RelPath(e1.path)) # NoId
    /\ IdsLookup(idsFile, idsOn, RelPath(e1.path)) = IdsLookup(idsFile, idsOn, RelPath(e2.path))

C6_Step ==
  /\ ((Performs("addDirectory") \/ Performs("addFile")) /\ last'.outcome = "ok") =>
       /\ ~MapHas(Index, last'.ret)
       /\ MapHas(IndexNext, last'.ret)
       /\ Len(nodes') = Len(nodes) + 1
  /\ (Performs("open") /\ DuplicateExplicit) =>
       /\ last'.outcome = "threw"
       /\ Len(nodes') - Len(nodes) < Cardinality(ScanSet(disk))

\* C6: the id map binds each id to one node; the id of a node created by
\* addDirectory or addFile was not in the id map before and is one more
\* entry of it after; an open whose id-mapping file gives an id that is
\* already in the map fails and registers no node for that entry.
C6_UniqueIds ==
  /\ [](NoDuplicates(nodes) /\ Range(nodes) \subseteq DOMAIN heap)
  /\ [][C6_Step]_vars

\* A directory was added while the id map already held every other
\* directory id of the pool, so that the generator could have collided.
C6_Witness ==
  /\ last.op = "addDirectory"
  /\ last.outcome = "ok"
  /\ IdPool("d") \subseteq Range(nodes)

\* What a client can observe of the index.
IndexView(S) ==
  [nodes |-> S.nodes, roots |-> S.roots, heap |-> S.heap,
   path |-> [n \in Range(S.nodes) |-> PathResult(S, n)]]

C8_RemoveCascades ==
  [][(Performs("remove") /\ last'.outcome = "ok" /\ MapHas(Index, last'.id)
        /\ isDirectoryNode(last'.id)) =>
       /\ last'.ret = <<TRUE>>
       /\ \A n \in ReachableFrom(Index, {last'.id}) :
            /\ ~MapHas(IndexNext, n)
            /\ n \notin Range(rootNodes')
            /\ \A m \in Range(nodes') : n \notin Range(heap'[m].children)]_vars

\* C9: while the database is open, a cached path equals the path computed
\* afresh by walking up the parentId chain.
C9_CachedPathsFresh ==
  dbOpened =>
    \A n \in Range(nodes) : paths[n] # <<>> => paths[n] = ComputedPath(Index, n)

\* C10: for every node n of the index, id(path(n.id)) is n.id, also when
\* another node under a different parent has the same last path segment.
C10_IdOfPathRoundTrip ==
  (dbOpened /\ ~Hung) =>
    \A n \in Range(nodes) : id(Index, PathResult(Index, n)).ret = n

(***************************************************************************)
(* Properties of close and open (RoundTripSpec).                           *)
(***************************************************************************)

\* C11: with id persistence on, in a tree that was only added to, an open
\* that follows a close succeeds and yields, for every logical path the
\* tree had when it was closed (the paths close wrote to the id-mapping
\* file), a node at that path with the id it had, and every file node
\* holds the data that was written (every file of the model holds DataX1).
C11_RoundTrip ==
  [][(Performs("open") /\ last.op = "close") =>
       /\ last'.outcome = "ok"
       /\ \A e \in idsFile.map :
            /\ MapHas(IndexNext, e.id)
            /\ ComputedPath(IndexNext, e.id) = e.path
       /\ \A n \in Range(nodes') :
            isFileNode(n) => heap'[n].content = DataX1]_vars

\* The logical paths of the nodes of the id map of S.
IndexedPaths(S) == {ComputedPath(S, n) : n \in Range(S.nodes)}

\* C12: once close() has completed and until the next open(), the id map
\* and the root set are empty, also when a callback that was suspended on
\* I/O at the close resumes afterwards; and the next open() rebuilds the
\* index from what is on disk.
C12_ClosedIndexEmpty ==
  /\ [](~drvOpened => (nodes = <<>> /\ rootNodes = <<>>))
  /\ [][(Performs("open") /\ last'.outcome = "ok") =>
          /\ Len(nodes') = Cardinality(ScanSet(disk))
          /\ IndexedPaths(IndexNext) = {RelPath(e.path) : e \in ScanSet(disk)}]_vars

\* C13: the handle of a unit whose callback has finished is resolved when
\* the callback completed normally and rejected when it raised a value,
\* thrown synchronously or through a rejected promise, truthy or falsy.
C13_HandleSettlesWithOutcome ==
  \A r \in RunnerIds :
    cbState[r] = "done" =>
      handle[r] = IF runErr[r] = "none" THEN "resolved" ELSE "rejected"

\* The drainer resumes after the run of a unit whose callback raised.
ResumeAfterRaise == cur # 0 /\ runErr[cur] # "none" /\ cur' # cur

\* transaction() finds the drainer stopped with units left in the queue.
RestartWithBacklog == ~running /\ queue # <<>> /\ dbOpened /\ nTxn' = nTxn + 1

\* C14: when the callback of a unit raised, the drain pass stops: no
\* further unit is started, the queue keeps its units in order, no handle
\* changes and the running flag is released; the next transaction() call
\* then starts the oldest remaining unit, not the new one.
C14_RaiseStopsDrainPass ==
  [][/\ ResumeAfterRaise =>
          /\ started' = started
          /\ queue' = queue
          /\ handle' = handle
          /\ running' = FALSE
     /\ RestartWithBacklog =>
          /\ started' = Append(started, Head(queue))
          /\ queue' = Append(Tail(queue), nTxn + 1)]_vars

\* C15: a callback is started only while the database is open: every step
\* that starts a unit is taken with the database open, so a close in the
\* middle of a drain lets the unit in flight finish but starts no other,
\* and units enqueued while the database is closed wait.
C15_StartsOnlyWhileOpen ==
  [][started' # started => (dbOpened /\ dbOpened')]_vars

\* The database was closed while an async unit was in flight; that unit
\* has finished since without raising, and the drainer has stopped with
\* units still queued.
C15_Witness ==
  /\ ~dbOpened
  /\ ~running
  /\ queue # <<>>
  /\ started # <<>>
  /\ kindOf[started[Len(started)]] = "async"
  /\ cbState[started[Len(started)]] = "done"
  /\ \A r \in RunnerIds : runErr[r] = "none"

\* The collection s of S is in ascending order of name.
SortedByName(S, s) ==
  \A i, j \in DOMAIN s : i < j => ~NameBefore(S, s[j], s[i])

\* The root collection and every children collection of S are sorted.
AllSorted(S) ==
  /\ SortedByName(S, S.roots)
  /\ \A n \in DOMAIN S.heap :
       S.heap[n].hasChildren => SortedByName(S, S.heap[n].children)

StructuralOps == {"addDirectory", "addFile", "rename", "move"}

\* C16: after every successful addDirectory, addFile, rename and move the
\* root collection and every children collection, in particular the one
\* that holds the affected node, is sorted by name in ascending order.
C16_SiblingsSorted ==
  [][(nOps' = nOps + 1 /\ last'.op \in StructuralOps /\ last'.outcome = "ok")
       => AllSorted(IndexNext)]_vars

RECURSIVE PreOrder(_, _, _, _, _)

\* The nodes below node m: its children, their children, and so on.
Below(S, m) == ReachableFrom(S, Range(S.heap[m].children))

\* The ancestors of node n: the nodes that n is below.
Ancestors(S, n) == {m \in DOMAIN S.heap : n \in Below(S, m)}

\* The pre-order listing of the members of collection coll from position j
\* on, each followed by the listing of its children one level deeper.
PreOrder(S, coll, j, depth, fuel) ==
  IF j > Len(coll) \/ fuel = 0 THEN <<>>
  ELSE <<[node |-> coll[j], depth |-> depth, order |-> j - 1]>>
       \o PreOrder(S, S.heap[coll[j]].children, 1, depth + 1, fuel - 1)
       \o PreOrder(S, coll, j + 1, depth, fuel)

\* A step in which eachNode ran to its end with a visitor of kind k.
Traversed(k) ==
  /\ nOps' = nOps
  /\ last'.op = "eachNode"
  /\ last'.outcome = "ok"
  /\ last'.ret.kind = k

\* C17: with a visitor that returns nothing, eachNode(null) calls it once
\* for every node of the id map, in pre-order, with depth the number of
\* ancestors of the node and order its index in its collection;
\* eachNode(id) for a directory visits exactly the nodes below it, in
\* pre-order with depth 0 for its children.
C17_PreOrderVisitsAll ==
  [][Traversed("all") =>
       LET vs == last'.ret.visits
           fuel == Cardinality(DOMAIN heap) + 1
       IN IF last'.id = NoId
          THEN /\ \A n \in Range(nodes) :
                    Cardinality({i \in DOMAIN vs : vs[i].node = n}) = 1
               /\ \A i \in DOMAIN vs :
                    /\ vs[i].node \in Range(nodes)
                    /\ vs[i].depth = Cardinality(Ancestors(Index, vs[i].node))
               /\ vs = PreOrder(Index, rootNodes, 1, 0, fuel)
          ELSE /\ {vs[i].node : i \in DOMAIN vs} = Below(Index, last'.id)
               /\ Len(vs) = Cardinality(Below(Index, last'.id))
               /\ vs = PreOrder(Index, heap[last'.id].children, 1, 0, fuel)]_vars

\* The listing of the whole forest that a visitor returning nothing gets.
FullListing == PreOrder(Index, rootNodes, 1, 0, Cardinality(DOMAIN heap) + 1)

\* The positions of the listing at which node n is visited.
VisitsOf(listing, n) == {i \in DOMAIN listing : listing[i].node = n}

First(I) == CHOOSE i \in I : \A j \in I : i <= j

\* C18: when the visitor returns true for a node the traversal stops at
\* once: the visitor has been called for the nodes up to the first visit of
\* that node, as in a full traversal, and for nothing after it, neither
\* deeper, nor in another branch, nor under a later root.
C18_AbortStopsTraversal ==
  [][(Traversed("abortAt") /\ last'.id = NoId) =>
       LET vs == last'.ret.visits
           at == VisitsOf(FullListing, last'.arg)
       IN IF at = {}
          THEN vs = FullListing /\ last'.ret.end = "done"
          ELSE vs = SubSeq(FullListing, 1, First(at)) /\ last'.ret.end = "aborted"]_vars

\* A traversal was aborted at a node that has a child, in the first of two
\* roots.
C18_Witness ==
  /\ last.op = "eachNode"
  /\ last.ret.kind = "abortAt"
  /\ last.ret.end = "aborted"
  /\ Len(rootNodes) = 2
  /\ last.arg = rootNodes[1]
  /\ heap[last.arg].children # <<>>
  /\ Len(last.ret.visits) = 1

\* C19: when the visitor returns false for a node, no node below that node
\* is visited, and the visits are those of a full traversal without the
\* nodes below it, in the same order and with the same depth and order.
C19_PruneSkipsDescendantsOnly ==
  [][(Traversed("pruneAt") /\ last'.id = NoId) =>
       LET vs == last'.ret.visits
           under == Below(Index, last'.arg)
       IN /\ \A i \in DOMAIN vs : vs[i].node \notin under
          /\ vs = SelectSeq(FullListing, LAMBDA e : e.node \notin under)
          /\ last'.ret.end = "done"]_vars

C21_AddFileSetsContent ==
  [][(Performs("addFile") /\ last'.outcome = "ok") =>
       getNodeContent(IndexNext, last'.ret) = DataX1]_vars

\* The directories of S whose children collection holds node n.
ParentsOf(S, n) ==
  {m \in DOMAIN S.heap : S.heap[m].hasChildren /\ n \in Range(S.heap[m].children)}

\* C22: after a successful move(X, D) the parent id of X is D (none when D
\* is null), X is in the children of D (in the root set when D is null)
\* and in no other collection, and X is in the id map under its id with
\* its name unchanged.
C22_MoveReparents ==
  [][(Performs("move") /\ last'.outcome = "ok") =>
       LET X == last'.id
           D == last'.arg
       IN /\ heap'[X].pId = D
          /\ ParentsOf(IndexNext, X) = (IF D = NoId THEN {} ELSE {D})
          /\ (X \in Range(rootNodes')) <=> (D = NoId)
          /\ MapHas(IndexNext, X)
          /\ heap'[X].name = heap[X].name]_vars

\* The step is a rename of an unknown id, or a move of an unknown id or to
\* a destination id that is not in the id map.
UnresolvedTarget ==
  \/ Performs("rename") /\ ~MapHas(Index, last'.id)
  \/ /\ Performs("move")
     /\ \/ ~MapHas(Index, last'.id)
        \/ last'.arg # NoId /\ ~MapHas(Index, last'.arg)

LookupPaths ==
  {JoinPath(<<n>>) : n \in Names} \cup {JoinPath(<<m, n>>) : m \in Names, n \in Names}

\* C24: id(path) returns undefined, without failing, for every path that
\* is the logical path of no indexed node, also when the last segment is
\* the name of a node at the same depth under another parent.
C24_IdOfMissingPath ==
  (dbOpened /\ ~Hung) =>
    \A p \in LookupPaths :
      (\A n \in Range(nodes) : PathResult(Index, n) # p) =>
        id(Index, p) = [outcome |-> "ok", ret |-> Undefined]

\* C25: remove(id) of an id that is not in the id map returns false, makes
\* no file-system call and leaves the disk and the index as they were;
\* remove(id) of an indexed id whose file-system delete succeeds returns
\* true.
C25_RemoveResult ==
  [][Performs("remove") =>
       IF ~MapHas(Index, last'.id)
       THEN /\ last'.outcome = "ok"
            /\ last'.ret = <<FALSE>>
            /\ last'.failed = "none"
            /\ disk' = disk
            /\ <<heap', nodes', rootNodes', paths'>> = <<heap, nodes, rootNodes, paths>>
       ELSE last'.failed = "none" =>
              (last'.outcome = "ok" /\ last'.ret = <<TRUE>>)]_vars

\* C27: db.printDirectory() on an open database resolves, whatever the
\* tree, and its traversal has visited every indexed node.
C27_PrintDirectoryResolves ==
  [][Performs("printDirectory") =>
       /\ last'.outcome = "ok"
       /\ {last'.ret.visits[i].node : i \in DOMAIN last'.ret.visits} = Range(nodes)]_vars

\* C26: trx.path(id) changes nothing but the path cache entry of that node
\* (the nodes, their collections, the disk and the answers of trx.path and
\* trx.id stay as they were), and calling it again at once returns the same
\* string and changes nothing at all.
C26_PathIdempotent ==
  [][Performs("path") =>
       LET again == path(IndexNext, disk', last'.id)
       IN /\ last'.outcome = "ok"
          /\ <<heap', nodes', rootNodes', disk'>> = <<heap, nodes, rootNodes, disk>>
          /\ \A n \in Range(nodes) : n # last'.id => paths'[n] = paths[n]
          /\ \A n \in Range(nodes) : PathResult(IndexNext, n) = PathResult(Index, n)
          /\ \A p \in LookupPaths : id(IndexNext, p) = id(Index, p)
          /\ again.ret = last'.ret
          /\ again.S = IndexNext]_vars

\* trx.path has answered for a node below a directory, and the answer is
\* now in the cache.
C26_Witness ==
  /\ last.op = "path"
  /\ MapHas(Index, last.id)
  /\ heap[last.id].pId # NoId
  /\ last.ret = ComputedPath(Index, last.id)
  /\ Len(SplitPath(last.ret)) = 2
  /\ paths[last.id] = last.ret

\* trx.addDirectory(name) and then trx.remove(newId), each with its
\* file-system calls succeeding, on the index S and the disk D.
AddThenRemove(S, D, name, fresh) ==
  LET a == addDirectory(S, D, name, NoId, "ok", fresh)
      r == remove(Collect(a.S), a.D, a.ret, "ok")
  IN [added |-> a.outcome = "ok", outcome |-> r.outcome, ret |-> r.ret,
      S |-> Collect(r.S), D |-> r.D]

\* The id map, the root set and the children sets.
Structure(S) == [nodes |-> S.nodes, roots |-> S.roots, heap |-> S.heap]

\* C28: on an open database, whenever addDirectory(name) succeeds, a
\* following remove(newId) returns true with no error and leaves the id
\* map, the root set, the children sets and the disk as they were before
\* the addDirectory.
C28_AddRemoveRoundTrip ==
  (dbOpened /\ ~Hung /\ HasRoom) =>
    \A name \in Names : \A fresh \in createNodeId(Index, idsFile, TRUE) :
      LET t == AddThenRemove(Index, disk, name, fresh)
      IN t.added =>
           /\ t.outcome = "ok"
           /\ t.ret = <<TRUE>>
           /\ Structure(t.S) = Structure(Index)
           /\ t.D = disk

\* The number of steps along parentId from node n to a root.
AncestorHops(S, n) == Len(AncestorNames(S, S.heap[n].pId, Cardinality(DOMAIN S.heap)))

\* C29: getNodeDepth of an indexed node is the number of its ancestors: 0
\* for a root node, 1 for a child of a root, k for a node with k ancestors.
C29_DepthCountsAncestors ==
  dbOpened => \A n \in Range(nodes) : getNodeDepth(Index, n) = AncestorHops(Index, n)

\* C30: in every state, a node of the id map owns a children set exactly
\* when its id begins with "d", and a node without one has an id that
\* begins with "f".
C30_ChildrenIffDirectoryId ==
  \A n \in Range(nodes) :
    /\ heap[n].hasChildren <=> isDirectoryNode(n)
    /\ ~heap[n].hasChildren => isFileNode(n)

\* Where following entry.pId from node n through the id map ends: at a
\* "root" (a node without pId), at a "dangling" pId that is not in the id
\* map, or nowhere within as many steps as there are nodes ("cycle").
RECURSIVE ChainEnd(_, _, _)
ChainEnd(S, n, fuel) ==
  LET pId == S.heap[n].pId
  IN IF pId = NoId THEN "root"
     ELSE IF getNodeById(S, pId) = NoId THEN "dangling"
     ELSE IF fuel = 0 THEN "cycle"
     ELSE ChainEnd(S, pId, fuel - 1)

\* C31: in every state of an open database the parentId links of every
\* indexed node lead to a root node, a node with no parentId, in finitely
\* many steps.
C31_AncestorChainReachesRoot ==
  dbOpened => \A n \in Range(nodes) : ChainEnd(Index, n, Cardinality(DOMAIN heap)) = "root"

\* Some callback has raised or its promise has rejected.
Raised == \E r \in RunnerIds : runErr[r] # "none"

\* Units wait in the queue of an open database and nothing is scheduled:
\* no drainer is active and no callback is in progress, while the client
\* could still call transaction(), open() or close().
StrandedIdle ==
  /\ dbOpened
  /\ queue # <<>>
  /\ ~running
  /\ ~Raised
  /\ ~ENABLED CallbackSettle
  /\ ~ENABLED DrainResume
  /\ nTxn < MaxRunners
  /\ nOps < MaxOps

\* C32: while the database stays open and no callback raises, every unit
\* enqueued by transaction() has its callback started and its handle
\* settled eventually, and a drainer that is active releases the running
\* flag eventually.
C32_QueueLiveness ==
  /\ \A r \in RunnerIds :
       (cbState[r] = "queued" /\ dbOpened) ~> (handle[r] # "pending" \/ ~dbOpened \/ Raised)
  /\ (running /\ dbOpened) ~> (~running \/ ~dbOpened \/ Raised)

\* The (logical path, is a directory) pairs of the nodes of the id map.
IndexedEntries(S) ==
  {[path |-> PathResult(S, n), dir |-> S.heap[n].hasChildren] : n \in Range(S.nodes)}

\* The same for what open() scans on the disk D.
ScannedEntries(D) == {[path |-> RelPath(e.path), dir |-> e.kind = "dir"] : e \in ScanSet(D)}

\* C33: an open() that fails leaves the database not open and the id map
\* and root set empty; an open() that succeeds, also after failed ones,
\* leaves the index of a fresh instance: the id map holds one node for
\* every scanned entry, and the root set holds the nodes without parent.
C33_FailedOpenLeavesClean ==
  [][Performs("open") =>
       IF last'.outcome = "threw"
       THEN ~dbOpened' /\ nodes' = <<>> /\ rootNodes' = <<>>
       ELSE /\ dbOpened'
            /\ IndexedEntries(IndexNext) = ScannedEntries(disk')
            /\ Cardinality(Range(nodes')) = Cardinality(ScanSet(disk'))
            /\ Range(rootNodes') = {n \in Range(nodes') : heap'[n].pId = NoId}]_vars

\* The index S mirrors the disk D: the indexed (path, kind) pairs are the
\* directories and .json files on disk, and no two nodes share a path.
Mirror(S, D) ==
  /\ IndexedEntries(S) = ScannedEntries(D)
  /\ Cardinality(IndexedEntries(S)) = Cardinality(Range(S.nodes))

\* C34: a successful addDirectory, addFile, remove, rename or move on an
\* index that mirrors the disk leaves an index that mirrors the disk: the
\* (logical path, directory or file) pairs of the indexed nodes are the
\* directories and .json files on disk, and no two nodes share a path.
C34_IndexMirrorsDisk ==
  [][(/\ nOps' = nOps + 1
      /\ last'.op \in {"addDirectory", "addFile", "remove", "rename", "move"}
      /\ last'.outcome = "ok"
      /\ dbOpened
      /\ Mirror(Index, disk)) => Mirror(IndexNext, disk')]_vars

\* The number of collections (the root collection, the children
\* collections) that node n is a member of.
Memberships(S, n) ==
  Cardinality(ParentsOf(S, n)) + (IF n \in Range(S.roots) THEN 1 ELSE 0)

\* The collections of S form a forest over the nodes of the id map.
Forest(S) ==
  \A n \in Range(S.nodes) :
    /\ Memberships(S, n) = 1
    /\ S.heap[n].hasChildren => n \notin Below(S, n)

\* A traversal of the whole of S ends and calls the visitor at most once
\* per node.
TraversalVisitsOnce(S) ==
  LET w == eachNode(S, NoId, VisitAll)
  IN /\ w.end = "done"
     /\ \A i, j \in DOMAIN w.visits : w.visits[i].node = w.visits[j].node => i = j

\* C35: a successful addDirectory, addFile, remove, rename or move on an
\* index whose collections form a forest leaves a forest: every indexed
\* node is a member of exactly one collection and no node is below
\* itself, so that a traversal ends and visits no node twice.
C35_CollectionsFormForest ==
  [][(/\ nOps' = nOps + 1
      /\ last'.op \in {"addDirectory", "addFile", "remove", "rename", "move"}
      /\ last'.outcome = "ok"
      /\ dbOpened
      /\ Forest(Index)) => (Forest(IndexNext) /\ TraversalVisitsOnce(IndexNext))]_vars

====
